---- MODULE Spec2Model ----
(***************************************************************************)
(* Model of pytorchic-bert's classify.py / utils.py:                       *)
(*   - the preprocessing pipeline (truncate_tokens_pair,                   *)
(*     AddSpecialTokensWithTruncation, TokenIndexing),                     *)
(*   - QuantizedDistillElectraTrainer.get_loss,                            *)
(*   - QuantizedDistillElectraTrainer.train.                               *)
(* Tensors are abstracted to the scalar values the loss functions return.  *)
(***************************************************************************)
EXTENDS Integers, Sequences, FiniteSets, TLC

VARIABLES
    \* ---- preprocessing pipeline (one instance going through the stages)
    ppc,        \* position: "call" | "trunc" | "special" | "index" | "done" | "error"
    pcfg,       \* [max_len, output_mode]: the stages' constructor arguments
    given,      \* the instance as it was when the stage was called
    instance,   \* the caller's instance; its lists are popped in place by truncation
    _max_len,   \* AddSpecialTokensWithTruncation.__call__'s local budget
    result,     \* what AddSpecialTokensWithTruncation returned
    output,     \* what TokenIndexing returned
    perr,       \* exception raised in the pipeline ("none" when none)
    prev,       \* an earlier application of the stage to this instance: [arg, result]
    \* ---- one call of get_loss
    lpc,        \* "call" | "returned"
    largs,      \* [self, out, global_step, cur_epoch]
    lres,       \* what get_loss returned or raised
    \* ---- train
    pc,         \* position in train
    run,        \* [self, n_epochs, n_batches, save_steps, total_steps]
    e,          \* epoch index of the for loop
    i,          \* batch index of the inner loop (Unbound before the first batch)
    it,         \* batches the epoch's iterator has yielded
    global_step,
    local_step,
    loss_sum,
    result_values_sum,
    loss,       \* the loss of the current batch
    grad,       \* "none" | "zero" | "computed" | "applied"
    opt_steps,  \* calls of optimizer.step()
    saves,      \* calls of self.save: [step, at]
    writer,     \* scalar entries the writer received
    terr,       \* exception that left train ("none" when none)
    lcall       \* the latest get_loss call of train: [cur_epoch, res]

pipeVars == <<ppc, pcfg, given, instance, _max_len, result, output, perr,
              prev>>

lossVars == <<lpc, largs, lres>>

trainVars == <<pc, run, e, i, it, global_step, local_step, loss_sum,
               result_values_sum, loss, grad, opt_steps, saves, writer, terr,
               lcall>>

vars == <<pipeVars, lossVars, trainVars>>

\* ------------------------------------------------------------------ bounds
MaxTokens == 3      \* longest raw token sequence tried for tokens_a / tokens_b
MaxSeqLen == 6      \* largest max_len tried
MaxLayers == 2      \* largest num_hidden_layers tried
MaxHeads == 4       \* largest attention head count tried
MaxEpochs == 3      \* largest n_epochs tried
MaxBatches == 3     \* most batches per epoch tried
MaxSaveSteps == 3   \* largest save_steps tried
MaxTotalSteps == 3  \* largest total_steps tried

\* ------------------------------------------------------------- helpers
Words == {"w1", "w2"}
Labels == <<"0", "1">>
OutputModes == {"classification", "regression", "other"}

LossValues == {1, 2}

SeqsUpTo(S, n) == UNION {[1..k -> S] : k \in 0..n}

Front(s) == SubSeq(s, 1, Len(s) - 1)

IsPrefix(p, s) == Len(p) <= Len(s) /\ SubSeq(s, 1, Len(p)) = p

Repeat(v, n) == [k \in 1..n |-> v]

Max(a, b) == IF a >= b THEN a ELSE b

Min(a, b) == IF a <= b THEN a ELSE b

\* --------------------------------------------------- truncate_tokens_pair
\* One iteration of the while loop of truncate_tokens_pair, on the lists the
\* caller passed (instance.tokens_a / instance.tokens_b are popped in place).
TruncFits == Len(instance.tokens_a) + Len(instance.tokens_b) <= _max_len

\* variant: a tie removes from tokens_a
TruncTakesA_Tie == Len(instance.tokens_a) >= Len(instance.tokens_b)

TruncTakesA == Len(instance.tokens_a) > Len(instance.tokens_b)

\* variant: the budget never reserves the second [SEP]
CallAddSpecial_TwoOnly ==
    /\ ppc = "call"
    /\ _max_len' = pcfg.max_len - 2
    /\ ppc' = "trunc"
    /\ UNCHANGED <<lossVars, trainVars, prev, pcfg, given, instance, result, output, perr>>

\* Entry of AddSpecialTokensWithTruncation.__call__: the budget.
CallAddSpecial ==
    /\ ppc = "call"
    /\ _max_len' = IF instance.tokens_b # <<>> THEN pcfg.max_len - 3
                                             ELSE pcfg.max_len - 2
    /\ ppc' = "trunc"
    /\ UNCHANGED <<lossVars, trainVars, prev, pcfg, given, instance, result, output, perr>>

TruncBreak ==
    /\ ppc = "trunc"
    /\ TruncFits
    /\ ppc' = "special"
    /\ UNCHANGED <<lossVars, trainVars, prev, pcfg, given, instance, _max_len, result, output, perr>>

TruncPopA ==
    /\ ppc = "trunc"
    /\ ~TruncFits
    /\ TruncTakesA
    /\ instance' = [instance EXCEPT !.tokens_a = Front(@)]
    /\ UNCHANGED <<lossVars, trainVars, prev, ppc, pcfg, given, _max_len, result, output, perr>>

TruncPopB ==
    /\ ppc = "trunc"
    /\ ~TruncFits
    /\ ~TruncTakesA
    /\ instance.tokens_b # <<>>
    /\ instance' = [instance EXCEPT !.tokens_b = Front(@)]
    /\ UNCHANGED <<lossVars, trainVars, prev, ppc, pcfg, given, _max_len, result, output, perr>>

\* pop() from an empty list: IndexError (only when the budget is negative).
TruncPopEmpty ==
    /\ ppc = "trunc"
    /\ ~TruncFits
    /\ ~TruncTakesA
    /\ instance.tokens_b = <<>>
    /\ ppc' = "error"
    /\ perr' = "IndexError"
    /\ UNCHANGED <<lossVars, trainVars, prev, pcfg, given, instance, _max_len, result, output>>

\* ------------------------------------ AddSpecialTokensWithTruncation
\* variant: the separator is appended to the caller's tokens_b list itself
AddSpecialTokens_InPlace ==
    /\ ppc = "special"
    /\ result' = [label    |-> instance.label,
                  tokens_a |-> <<"[CLS]">> \o instance.tokens_a \o <<"[SEP]">>,
                  tokens_b |-> IF instance.tokens_b # <<>>
                               THEN instance.tokens_b \o <<"[SEP]">>
                               ELSE <<>>]
    /\ instance' = [instance EXCEPT !.tokens_b =
                        IF @ # <<>> THEN @ \o <<"[SEP]">> ELSE @]
    /\ ppc' = "index"
    /\ UNCHANGED <<lossVars, trainVars, prev, pcfg, given, _max_len, output, perr>>

\* lines 240-244: new lists are built, the caller's lists are not touched
AddSpecialTokens ==
    /\ ppc = "special"
    /\ result' = [label    |-> instance.label,
                  tokens_a |-> <<"[CLS]">> \o instance.tokens_a \o <<"[SEP]">>,
                  tokens_b |-> IF instance.tokens_b # <<>>
                               THEN instance.tokens_b \o <<"[SEP]">>
                               ELSE <<>>]
    /\ ppc' = "index"
    /\ UNCHANGED <<lossVars, trainVars, prev, pcfg, given, instance, _max_len, output, perr>>

\* ------------------------------------------------------- TokenIndexing
Vocab == <<"[PAD]", "[CLS]", "[SEP]", "w1", "w2">>

VocabId(tok) == (CHOOSE k \in 1..Len(Vocab) : Vocab[k] = tok) - 1

indexer(tokens) == [k \in 1..Len(tokens) |-> VocabId(tokens[k])]

label_map(label) == (CHOOSE k \in 1..Len(Labels) : Labels[k] = label) - 1

ToFloat(label) == IF label = "0" THEN 0 ELSE 1

\* variant: one pad short
ZeroPad_Short(ids, n_pad) == ids \o Repeat(0, n_pad - 1)

ZeroPad(ids, n_pad) == ids \o Repeat(0, n_pad)

\* lines 257-275. Line 268 names output_mode, which is not defined there, so an
\* unrecognized mode raises NameError. Labels are drawn from the task's label
\* set, so label_map[label] finds its key.
TokenIndexingCall(self, inst) ==
    LET input_ids      == indexer(inst.tokens_a \o inst.tokens_b)
        token_type_ids == Repeat(0, Len(inst.tokens_a)) \o Repeat(1, Len(inst.tokens_b))
        attention_mask == Repeat(1, Len(inst.tokens_a) + Len(inst.tokens_b))
        n_pad          == self.max_len - Len(input_ids)
    IN  IF self.output_mode \notin {"classification", "regression"}
        THEN [raised |-> "NameError"]
        ELSE [raised         |-> "none",
              input_ids      |-> ZeroPad(input_ids, n_pad),
              attention_mask |-> ZeroPad(attention_mask, n_pad),
              token_type_ids |-> ZeroPad(token_type_ids, n_pad),
              label_id       |-> IF self.output_mode = "classification"
                                 THEN label_map(inst.label)
                                 ELSE ToFloat(inst.label)]

TokenIndexingOk ==
    /\ ppc = "index"
    /\ TokenIndexingCall(pcfg, result).raised = "none"
    /\ output' = TokenIndexingCall(pcfg, result)
    /\ ppc' = "done"
    /\ UNCHANGED <<lossVars, trainVars, prev, pcfg, given, instance, _max_len, result, perr>>

TokenIndexingRaise ==
    /\ ppc = "index"
    /\ TokenIndexingCall(pcfg, result).raised # "none"
    /\ perr' = TokenIndexingCall(pcfg, result).raised
    /\ ppc' = "error"
    /\ UNCHANGED <<lossVars, trainVars, prev, pcfg, given, instance, _max_len, result, output>>

NoInstance == [label |-> "0", tokens_a |-> <<>>, tokens_b |-> <<>>]

NoPrev == [arg |-> NoInstance, result |-> NoInstance]

\* the same stage object applied once more to the same instance object
CallAgain ==
    /\ ppc = "index"
    /\ prev = NoPrev
    /\ prev' = [arg |-> given, result |-> result]
    /\ given' = instance
    /\ result' = NoInstance
    /\ ppc' = "call"
    /\ UNCHANGED <<lossVars, trainVars, pcfg, instance, _max_len, output, perr>>

InitPipeline ==
    /\ ppc = "call"
    /\ pcfg \in [max_len : 0..MaxSeqLen, output_mode : OutputModes]
    /\ given \in [label : {Labels[k] : k \in 1..Len(Labels)},
                  tokens_a : SeqsUpTo(Words, MaxTokens),
                  tokens_b : SeqsUpTo(Words, MaxTokens)]
    /\ instance = given
    /\ _max_len = 0
    /\ result = NoInstance
    /\ output = [raised |-> "unset"]
    /\ perr = "none"
    /\ prev = NoPrev

NextPipeline ==
    \/ CallAddSpecial
    \/ TruncBreak
    \/ TruncPopA
    \/ TruncPopB
    \/ TruncPopEmpty
    \/ AddSpecialTokens
    \/ CallAgain
    \/ TokenIndexingOk
    \/ TokenIndexingRaise


\* =================================================================
\* QuantizedDistillElectraTrainer.get_loss
\* self: the trainer's fields and the train_cfg / model_cfg values it reads.
\* out:  what model(*batch) returned, each loss function's value abstracted to
\*       an integer: t_loss, s_loss, bce (the BCE of the tempered logits),
\*       hidden[l] (mseLoss of hidden-state pair l), att[l] (mseLoss of one
\*       student head against one teacher group mean, in attention pair l).
RECURSIVE SumSeq(_)
SumSeq(s) == IF s = <<>> THEN 0 ELSE Head(s) + SumSeq(Tail(s))

max_n_distilled_layers(self) == self.num_hidden_layers + 1

\* variant: the schedule runs one epoch behind
n_distilled_layers_Behind(self, cur_epoch) ==
    IF self.gradually_distill THEN cur_epoch - 1 ELSE max_n_distilled_layers(self)

\* line 460
n_distilled_layers(self, cur_epoch) ==
    IF self.gradually_distill THEN cur_epoch ELSE max_n_distilled_layers(self)

\* line 466: the soft-logits term is multiplied by 0
SoftLogitsZeroed(self, n) ==
    self.gradually_distill /\ n <= max_n_distilled_layers(self)

\* variant: the student loss scaled by lambda_
UndistilledLoss_Scaled(self, out) == out.s_loss * self.lambda_

\* lines 441-442: the loss when distillation is off
UndistilledLoss(self, out) == out.s_loss

\* line 478
split_sections(self) == Repeat(self.s_n_heads, self.t_n_heads \div self.s_n_heads)

\* torch.split(t_atten, split_sections, dim=1): chunk k (from 0) holds the
\* teacher heads k*s_n_heads .. k*s_n_heads + s_n_heads - 1.
split_t_attens(self) ==
    [k \in 1..Len(split_sections(self)) |->
        {h \in 0..(self.t_n_heads - 1) :
            /\ h >= (k - 1) * self.s_n_heads
            /\ h < k * self.s_n_heads}]

\* lines 479-482: the mseLoss calls made for one attention pair, in order
AttenTermsOfLayer(self, l) ==
    [k \in 1..Len(split_t_attens(self)) |->
        [layer |-> l, s_head |-> k - 1, t_heads |-> split_t_attens(self)[k]]]

RECURSIVE AttenTerms(_, _)
AttenTerms(self, n_pairs) ==
    IF n_pairs = 0 THEN <<>>
    ELSE AttenTerms(self, n_pairs - 1) \o AttenTermsOfLayer(self, n_pairs)

\* variant: the split tolerates sections that do not cover the teacher heads
GetLossRaises_LooseSplit(self, n_atten_pairs) ==
    IF n_atten_pairs > 0 /\ Len(split_sections(self)) > self.s_n_heads
    THEN "IndexError"
    ELSE IF self.imitate_tinybert
    THEN "NameError"
    ELSE "none"

\* what get_loss raises before it can return ("none" when it returns)
GetLossRaises(self, n_atten_pairs) ==
    IF n_atten_pairs > 0 /\ SumSeq(split_sections(self)) # self.t_n_heads
    THEN "RuntimeError"      \* torch.split: sections do not sum to t_n_heads
    ELSE IF n_atten_pairs > 0 /\ Len(split_sections(self)) > self.s_n_heads
    THEN "IndexError"        \* s_atten[:, i] with i >= s_n_heads
    ELSE IF self.imitate_tinybert
    THEN "NameError"         \* line 490 reads the undefined name pred_distill
    ELSE "none"

NoLoss ==
    [raised |-> "none", total_loss |-> 0, scalars |-> <<>>,
     n_distilled |-> 0, soft_logits_loss |-> 0, hidden_layers_loss |-> 0,
     atten_layers_loss |-> 0, hidden_terms |-> 0, atten_terms |-> <<>>]

get_loss(self, out, step, cur_epoch) ==
    IF ~self.distill
    THEN [NoLoss EXCEPT
            !.total_loss = UndistilledLoss(self, out),
            !.scalars = <<[global_step |-> step,
                           keys |-> {"total_loss", "lr"},
                           total_loss |-> UndistilledLoss(self, out)]>>]
    ELSE
    LET n       == n_distilled_layers(self, cur_epoch)
        T       == self.temperature
        soft0   == out.bce * T * T
        soft1   == IF SoftLogitsZeroed(self, n) THEN soft0 * 0 ELSE soft0
        n_hid   == Min(n, Len(out.hidden))
        hidden_layers_loss == SumSeq(SubSeq(out.hidden, 1, n_hid))
        n_att   == Min(n, Len(out.att))
        terms   == AttenTerms(self, n_att)
        atten0  == SumSeq([k \in 1..Len(terms) |-> out.att[terms[k].layer]])
        t_loss  == out.t_loss * self.lambda_
        s_loss  == out.s_loss * self.lambda_
        soft    == soft1 * self.soft_logits_factor
        atten   == atten0 * self.atten_layers_factor
        total   == t_loss + s_loss + soft + hidden_layers_loss + atten
        raised  == GetLossRaises(self, n_att)
    IN  IF raised # "none"
        THEN [NoLoss EXCEPT
                !.raised = raised,
                !.n_distilled = n,
                !.atten_terms = IF raised = "RuntimeError" THEN <<>> ELSE terms]
        ELSE [raised |-> "none",
              total_loss |-> total,
              scalars |-> <<[global_step |-> step,
                             keys |-> {"t_discriminator_loss", "s_discriminator_loss",
                                       "soft_logits_loss", "hidden_layers_loss",
                                       "attention_loss", "total_loss", "lr"},
                             total_loss |-> total]>>,
              n_distilled |-> n,
              soft_logits_loss |-> soft,
              hidden_layers_loss |-> hidden_layers_loss,
              atten_layers_loss |-> atten,
              hidden_terms |-> n_hid,
              atten_terms |-> terms]

\* the model's forward pass: hidden_states has num_hidden_layers + 1 entries
\* (embeddings and each layer), attentions has num_hidden_layers entries
Forward(self, t_loss, s_loss, bce, h, a) ==
    [t_loss |-> t_loss, s_loss |-> s_loss, bce |-> bce,
     hidden |-> Repeat(h, self.num_hidden_layers + 1),
     att    |-> Repeat(a, self.num_hidden_layers)]

Trainers ==
    [distill : BOOLEAN, gradually_distill : BOOLEAN,
     imitate_tinybert : BOOLEAN, pred_distill : BOOLEAN,
     output_mode : OutputModes,
     num_hidden_layers : 1..MaxLayers,
     s_n_heads : 1..MaxHeads, t_n_heads : 1..MaxHeads,
     temperature : {1}, lambda_ : LossValues,
     soft_logits_factor : LossValues, atten_layers_factor : LossValues]

\* ---- one call of get_loss on arbitrary arguments
CallGetLoss ==
    /\ lpc = "call"
    /\ lres' = get_loss(largs.self, largs.out, largs.global_step, largs.cur_epoch)
    /\ lpc' = "returned"
    /\ UNCHANGED <<pipeVars, trainVars, largs>>

InitLoss ==
    /\ lpc = "call"
    /\ \E self \in Trainers, s_loss \in LossValues, g \in 0..1,
          ep \in 1..(MaxLayers + 2) :
         largs = [self |-> self,
                  out |-> Forward(self, 1, s_loss, 1, 1, 1),
                  global_step |-> g, cur_epoch |-> ep]
    /\ lres = NoLoss

NextLoss == CallGetLoss

\* =================================================================
\* QuantizedDistillElectraTrainer.train
\* run = [self, n_epochs, save_steps, total_steps, n_batches]: the trainer, the
\* train_cfg values train reads (total_steps 0: no budget) and the number of
\* batches train_data_iter yields per epoch.
TrainOut == Forward(run.self, 1, 1, 1, 1, 1)

Unbound == -1

\* no call of get_loss yet
NoCall == [cur_epoch |-> 0, res |-> NoLoss]

\* lines 387-393
TrainBegin ==
    /\ pc = "start"
    /\ global_step' = 0
    /\ e' = 0
    /\ pc' = "epoch"
    /\ UNCHANGED <<pipeVars, lossVars, lcall, run, i, it, local_step, loss_sum, result_values_sum, loss,
                   grad, opt_steps, saves, writer, terr>>

\* variant: the running loss is initialised once, before the epoch loop
EpochBegin_KeepsLoss ==
    /\ pc = "epoch"
    /\ e < run.n_epochs
    /\ local_step' = 0
    /\ result_values_sum' = Unbound
    /\ it' = 0
    /\ pc' = "iter"
    /\ UNCHANGED <<pipeVars, lossVars, lcall, run, e, i, global_step, loss_sum,
                   loss, grad, opt_steps, saves, writer, terr>>

\* lines 394-398: the head of one epoch
EpochBegin ==
    /\ pc = "epoch"
    /\ e < run.n_epochs
    /\ loss_sum' = 0
    /\ local_step' = 0
    /\ result_values_sum' = Unbound
    /\ it' = 0
    /\ pc' = "iter"
    /\ UNCHANGED <<pipeVars, lossVars, lcall, run, e, i, global_step, loss, grad, opt_steps, saves,
                   writer, terr>>

\* lines 399-400: the next batch of the epoch
NextBatch ==
    /\ pc = "iter"
    /\ it < run.n_batches
    /\ i' = it
    /\ it' = it + 1
    /\ pc' = "zero_grad"
    /\ UNCHANGED <<pipeVars, lossVars, lcall, run, e, global_step, local_step, loss_sum,
                   result_values_sum, loss, grad, opt_steps, saves, writer, terr>>

\* line 402
ZeroGrad ==
    /\ pc = "zero_grad"
    /\ grad' = "zero"
    /\ pc' = "get_loss"
    /\ UNCHANGED <<pipeVars, lossVars, lcall, run, e, i, it, global_step, local_step, loss_sum,
                   result_values_sum, loss, opt_steps, saves, writer, terr>>

\* line 403, get_loss returning
GetLossReturns ==
    /\ pc = "get_loss"
    /\ LET r == get_loss(run.self, TrainOut, global_step, e + 1)
       IN  /\ r.raised = "none"
           /\ loss' = r.total_loss
           /\ writer' = writer \o r.scalars
           /\ lcall' = [cur_epoch |-> e + 1, res |-> r]
    /\ pc' = "backward"
    /\ UNCHANGED <<pipeVars, lossVars, run, e, i, it, global_step, local_step, loss_sum,
                   result_values_sum, grad, opt_steps, saves, terr>>

\* line 403, get_loss raising: the exception leaves train
GetLossRaisesInTrain ==
    /\ pc = "get_loss"
    /\ LET r == get_loss(run.self, TrainOut, global_step, e + 1)
       IN  /\ r.raised # "none"
           /\ terr' = r.raised
           /\ lcall' = [cur_epoch |-> e + 1, res |-> r]
    /\ pc' = "failed"
    /\ UNCHANGED <<pipeVars, lossVars, run, e, i, it, global_step, local_step, loss_sum,
                   result_values_sum, loss, grad, opt_steps, saves, writer>>

\* line 404
Backward ==
    /\ pc = "backward"
    /\ grad' = "computed"
    /\ pc' = "opt_step"
    /\ UNCHANGED <<pipeVars, lossVars, lcall, run, e, i, it, global_step, local_step, loss_sum,
                   result_values_sum, loss, opt_steps, saves, writer, terr>>

\* line 405
OptimizerStep ==
    /\ pc = "opt_step"
    /\ opt_steps' = opt_steps + 1
    /\ grad' = "applied"
    /\ pc' = "account"
    /\ UNCHANGED <<pipeVars, lossVars, lcall, run, e, i, it, global_step, local_step, loss_sum,
                   result_values_sum, loss, saves, writer, terr>>

\* lines 407-418: counters, running loss, running metric (evaluate's one
\* metric value is abstracted to 1)
Account ==
    /\ pc = "account"
    /\ global_step' = global_step + 1
    /\ local_step' = local_step + 1
    /\ loss_sum' = loss_sum + loss
    /\ result_values_sum' =
          (IF result_values_sum = Unbound THEN 0 ELSE result_values_sum) + 1
    /\ pc' = "save_check"
    /\ UNCHANGED <<pipeVars, lossVars, lcall, run, e, i, it, loss, grad, opt_steps, saves, writer, terr>>

\* variant: the interval counted per epoch
SaveDue_PerEpoch == local_step % run.save_steps = 0

\* line 420
SaveDue == global_step % run.save_steps = 0

\* lines 420-421
PeriodicSave ==
    /\ pc = "save_check"
    /\ SaveDue
    /\ saves' = Append(saves, [step |-> global_step, at |-> "periodic"])
    /\ pc' = "budget_check"
    /\ UNCHANGED <<pipeVars, lossVars, lcall, run, e, i, it, global_step, local_step, loss_sum,
                   result_values_sum, loss, grad, opt_steps, writer, terr>>

NoPeriodicSave ==
    /\ pc = "save_check"
    /\ ~SaveDue
    /\ pc' = "budget_check"
    /\ UNCHANGED <<pipeVars, lossVars, lcall, run, e, i, it, global_step, local_step, loss_sum,
                   result_values_sum, loss, grad, opt_steps, saves, writer, terr>>

\* line 423
BudgetReached == run.total_steps # 0 /\ run.total_steps < global_step

\* lines 423-427
BudgetExit ==
    /\ pc = "budget_check"
    /\ BudgetReached
    /\ saves' = Append(saves, [step |-> global_step, at |-> "budget"])
    /\ pc' = "done"
    /\ UNCHANGED <<pipeVars, lossVars, lcall, run, e, i, it, global_step, local_step, loss_sum,
                   result_values_sum, loss, grad, opt_steps, writer, terr>>

BudgetContinue ==
    /\ pc = "budget_check"
    /\ ~BudgetReached
    /\ pc' = "iter"
    /\ UNCHANGED <<pipeVars, lossVars, lcall, run, e, i, it, global_step, local_step, loss_sum,
                   result_values_sum, loss, grad, opt_steps, saves, writer, terr>>

\* line 429: the epoch's report, then the next epoch
EpochEnd ==
    /\ pc = "iter"
    /\ it = run.n_batches
    /\ i # Unbound
    /\ e' = e + 1
    /\ pc' = "epoch"
    /\ UNCHANGED <<pipeVars, lossVars, lcall, run, i, it, global_step, local_step, loss_sum,
                   result_values_sum, loss, grad, opt_steps, saves, writer, terr>>

\* line 429 with no batch ever seen: i is unbound
EpochEndUnbound ==
    /\ pc = "iter"
    /\ it = run.n_batches
    /\ i = Unbound
    /\ terr' = "UnboundLocalError"
    /\ pc' = "failed"
    /\ UNCHANGED <<pipeVars, lossVars, lcall, run, e, i, it, global_step, local_step, loss_sum,
                   result_values_sum, loss, grad, opt_steps, saves, writer>>

\* variant: the final checkpoint keyed by the epoch count
FinalSave_Epoch ==
    /\ pc = "epoch"
    /\ e >= run.n_epochs
    /\ saves' = Append(saves, [step |-> e, at |-> "final"])
    /\ pc' = "done"
    /\ UNCHANGED <<pipeVars, lossVars, lcall, run, e, i, it, global_step, local_step, loss_sum,
                   result_values_sum, loss, grad, opt_steps, writer, terr>>

\* line 430: the epoch loop is over
FinalSave ==
    /\ pc = "epoch"
    /\ e >= run.n_epochs
    /\ saves' = Append(saves, [step |-> global_step, at |-> "final"])
    /\ pc' = "done"
    /\ UNCHANGED <<pipeVars, lossVars, lcall, run, e, i, it, global_step, local_step, loss_sum,
                   result_values_sum, loss, grad, opt_steps, writer, terr>>

TrainTrainers ==
    {t \in Trainers :
        /\ t.pred_distill
        /\ t.output_mode = "classification"
        /\ t.s_n_heads <= 3 /\ t.t_n_heads <= 3
        /\ t.lambda_ = 1 /\ t.soft_logits_factor = 1
        /\ t.atten_layers_factor = 1}

InitTrain ==
    /\ pc = "start"
    /\ run \in [self : TrainTrainers,
                n_epochs : 0..MaxEpochs,
                n_batches : 0..MaxBatches,
                save_steps : 1..MaxSaveSteps,
                total_steps : 0..MaxTotalSteps]
    /\ e = 0
    /\ i = Unbound
    /\ it = 0
    /\ global_step = 0
    /\ local_step = 0
    /\ loss_sum = 0
    /\ result_values_sum = Unbound
    /\ loss = 0
    /\ grad = "none"
    /\ opt_steps = 0
    /\ saves = <<>>
    /\ writer = <<>>
    /\ terr = "none"
    /\ lcall = NoCall

NextTrain ==
    \/ TrainBegin
    \/ EpochBegin
    \/ NextBatch
    \/ ZeroGrad
    \/ GetLossReturns
    \/ GetLossRaisesInTrain
    \/ Backward
    \/ OptimizerStep
    \/ Account
    \/ PeriodicSave
    \/ NoPeriodicSave
    \/ BudgetExit
    \/ BudgetContinue
    \/ EpochEnd
    \/ EpochEndUnbound
    \/ FinalSave

\* =================================================================
\* specifications: each runs one part of the program, the others idle
IdlePipeline ==
    /\ ppc = "idle"
    /\ pcfg = [max_len |-> 0, output_mode |-> "classification"]
    /\ given = NoInstance
    /\ instance = NoInstance
    /\ _max_len = 0
    /\ result = NoInstance
    /\ output = [raised |-> "unset"]
    /\ perr = "none"
    /\ prev = NoPrev

IdleLoss ==
    /\ lpc = "idle"
    /\ largs = <<>>
    /\ lres = NoLoss

IdleTrain ==
    /\ pc = "idle"
    /\ run = <<>>
    /\ e = 0
    /\ i = Unbound
    /\ it = 0
    /\ global_step = 0
    /\ local_step = 0
    /\ loss_sum = 0
    /\ result_values_sum = Unbound
    /\ loss = 0
    /\ grad = "none"
    /\ opt_steps = 0
    /\ saves = <<>>
    /\ writer = <<>>
    /\ terr = "none"
    /\ lcall = NoCall

Init == InitTrain /\ IdlePipeline /\ IdleLoss

Next == NextTrain

Spec == Init /\ [][Next]_vars

InitP == InitPipeline /\ IdleLoss /\ IdleTrain

SpecPipeline == InitP /\ [][NextPipeline]_vars

InitL == InitLoss /\ IdlePipeline /\ IdleTrain

SpecLoss == InitL /\ [][NextLoss]_vars

\* ================================================================ claims
Last(s) == s[Len(s)]

ResultReturned == result.tokens_a # <<>>

\* C4: every result AddSpecialTokensWithTruncation returns has
\* len(tokens_a) + len(tokens_b) <= max_len, tokens_a starting with [CLS] and
\* ending with [SEP], and tokens_b ending with [SEP] exactly when it is
\* non-empty (an empty tokens_b gets no separator).
C4_SpecialTokensFit ==
    ResultReturned =>
        /\ Len(result.tokens_a) + Len(result.tokens_b) <= pcfg.max_len
        /\ Head(result.tokens_a) = "[CLS]"
        /\ Last(result.tokens_a) = "[SEP]"
        /\ Len(result.tokens_a) >= 2
        /\ result.tokens_b # <<>> => Last(result.tokens_b) = "[SEP]"
        /\ result.tokens_b = <<>> => instance.tokens_b = <<>>

C4_Witness ==
    /\ ResultReturned
    /\ result.tokens_b # <<>>
    /\ Len(given.tokens_a) + Len(given.tokens_b) + 3 > pcfg.max_len
    /\ Len(result.tokens_a) + Len(result.tokens_b) = pcfg.max_len

\* C5: every output of TokenIndexing has input_ids, token_type_ids and
\* attention_mask of length exactly max_len; token_type_ids is 0 on tokens_a,
\* 1 on tokens_b and 0 on padding; attention_mask is 1 on real tokens and 0 on
\* padding.
C5_PaddedToMaxLen ==
    output.raised = "none" =>
        LET na == Len(result.tokens_a)
            nb == Len(result.tokens_b)
        IN  /\ Len(output.input_ids) = pcfg.max_len
            /\ Len(output.token_type_ids) = pcfg.max_len
            /\ Len(output.attention_mask) = pcfg.max_len
            /\ \A k \in 1..pcfg.max_len :
                 /\ output.token_type_ids[k] =
                        (IF k > na /\ k <= na + nb THEN 1 ELSE 0)
                 /\ output.attention_mask[k] = (IF k <= na + nb THEN 1 ELSE 0)
                 /\ k > na + nb => output.input_ids[k] = 0

C5_Witness ==
    /\ output.raised = "none"
    /\ result.tokens_b # <<>>
    /\ Len(result.tokens_a) + Len(result.tokens_b) + 2 <= pcfg.max_len
    /\ output.attention_mask[pcfg.max_len] = 0
    /\ output.token_type_ids[Len(result.tokens_a) + 1] = 1

\* C6: truncate_tokens_pair removes one token at a time from the end, from
\* tokens_a when it is strictly longer than tokens_b and from tokens_b
\* otherwise, only while the combined length exceeds max_len; when it stops it
\* has removed exactly max(0, len_a + len_b - max_len) tokens and what remains
\* are prefixes of the original sequences.
TruncRemoved ==
    (Len(given.tokens_a) + Len(given.tokens_b))
        - (Len(instance.tokens_a) + Len(instance.tokens_b))

C6_AtBreak ==
    ppc \in {"special", "index", "done"} =>
        /\ TruncRemoved =
             Max(0, Len(given.tokens_a) + Len(given.tokens_b) - _max_len)
        /\ IsPrefix(instance.tokens_a, given.tokens_a)
        /\ IsPrefix(instance.tokens_b, given.tokens_b)

C6_OneStep ==
    (ppc = "trunc" /\ instance' # instance) =>
        /\ Len(instance.tokens_a) + Len(instance.tokens_b) > _max_len
        /\ IF Len(instance.tokens_a) > Len(instance.tokens_b)
           THEN /\ instance'.tokens_a = Front(instance.tokens_a)
                /\ instance'.tokens_b = instance.tokens_b
           ELSE /\ instance'.tokens_b = Front(instance.tokens_b)
                /\ instance'.tokens_a = instance.tokens_a

C6_TruncatePolicy == []C6_AtBreak /\ [][C6_OneStep]_vars

C6_Witness ==
    /\ ppc = "special"
    /\ TruncRemoved >= 3
    /\ Len(given.tokens_a) = Len(given.tokens_b)
    /\ Len(instance.tokens_a) > Len(instance.tokens_b)

\* ---------------------------------------------------------------- train
Periodic(rec) == rec.at = "periodic"

\* steps whose line-420 check has already run
SaveChecked == IF pc = "save_check" THEN global_step - 1 ELSE global_step

\* C1: with a step budget set and enough batches, train returns as soon as the
\* global step reaches total_steps: exactly total_steps optimizer steps are
\* performed and no batch is processed after the budget is reached.
C1_StopsAtBudget ==
    (pc # "idle" /\ run.total_steps # 0
        /\ run.n_epochs * run.n_batches >= run.total_steps) =>
        /\ opt_steps <= run.total_steps
        /\ pc = "done" => opt_steps = run.total_steps

\* C2: the periodic checkpoints are exactly those keyed by the positive
\* multiples of save_steps among the global steps taken so far, one each, in
\* order; the global step counts every optimizer step of the run, across
\* epochs.
C2_PeriodicSaves ==
    pc # "idle" =>
        /\ opt_steps = global_step + (IF pc = "account" THEN 1 ELSE 0)
        /\ SelectSeq(saves, Periodic) =
              [k \in 1..(SaveChecked \div run.save_steps) |->
                  [step |-> k * run.save_steps, at |-> "periodic"]]

C2_Witness ==
    /\ pc = "budget_check"
    /\ e >= 1
    /\ Last(saves) = [step |-> global_step, at |-> "periodic"]
    /\ local_step % run.save_steps # 0

\* C3: whenever train returns, the last checkpoint saved is keyed by the number
\* of optimizer steps performed; after a normal end of the epoch loop that
\* checkpoint is the final one, saved after the last step of the last epoch.
C3_LastCheckpoint ==
    pc = "done" =>
        /\ saves # <<>>
        /\ Last(saves).step = opt_steps
        /\ Last(saves).at \in {"final", "budget"}
        /\ Cardinality({k \in 1..Len(saves) : ~Periodic(saves[k])}) = 1
        /\ Last(saves).at = "final" =>
              /\ e = run.n_epochs
              /\ opt_steps = run.n_epochs * run.n_batches

C3_Witness ==
    /\ pc = "done"
    /\ Last(saves).at = "final"
    /\ run.n_epochs >= 2
    /\ opt_steps >= 2
    /\ opt_steps % run.save_steps # 0

\* ------------------------------------------------------------- get_loss
Returned == lpc = "returned"

\* the same call under the joint strategy: its components are those get_loss
\* computes before it chooses the combination
JointCall ==
    get_loss([largs.self EXCEPT !.imitate_tinybert = FALSE], largs.out,
             largs.global_step, largs.cur_epoch)

\* C7: with distill off, get_loss returns exactly the student task loss,
\* whatever gradually_distill, imitate_tinybert, pred_distill and the head
\* counts are, and emits one scalar entry keyed by the global step.
C7_UndistilledLoss ==
    (Returned /\ ~largs.self.distill) =>
        /\ lres.raised = "none"
        /\ lres.total_loss = largs.out.s_loss
        /\ Len(lres.scalars) = 1
        /\ lres.scalars[1].global_step = largs.global_step
        /\ lres.scalars[1].total_loss = largs.out.s_loss

C7_Witness ==
    /\ Returned
    /\ ~largs.self.distill
    /\ largs.self.gradually_distill
    /\ largs.self.imitate_tinybert
    /\ largs.self.lambda_ = 2
    /\ largs.self.t_n_heads % largs.self.s_n_heads # 0
    /\ lres.total_loss = 2

\* C8: under gradual distillation the soft-logits term is zeroed exactly while
\* N < num_hidden_layers + 1 and contributes its scaled value once N has
\* reached that maximum; without gradual distillation it is never zeroed.
C8_ZeroedBelowMax ==
    (Returned /\ largs.self.distill /\ lres.raised = "none") =>
        LET scaled == largs.out.bce * largs.self.temperature
                        * largs.self.temperature * largs.self.soft_logits_factor
            below  == /\ largs.self.gradually_distill
                      /\ largs.cur_epoch < largs.self.num_hidden_layers + 1
        IN  lres.soft_logits_loss = (IF below THEN 0 ELSE scaled)

\* C9: with distill and imitate_tinybert on, get_loss returns hidden-layer
\* loss + attention loss when self.pred_distill is false, the student task
\* loss (regression) or the soft-logits loss (classification) when it is true,
\* and fails with a KeyError on any other output mode.
C9_TwoStage ==
    (Returned /\ largs.self.distill /\ largs.self.imitate_tinybert
        /\ JointCall.raised = "none") =>
        IF ~largs.self.pred_distill
        THEN /\ lres.raised = "none"
             /\ lres.total_loss =
                  JointCall.hidden_layers_loss + JointCall.atten_layers_loss
        ELSE IF largs.self.output_mode = "regression"
        THEN /\ lres.raised = "none"
             /\ lres.total_loss = largs.out.s_loss * largs.self.lambda_
        ELSE IF largs.self.output_mode = "classification"
        THEN /\ lres.raised = "none"
             /\ lres.total_loss = JointCall.soft_logits_loss
        ELSE lres.raised = "KeyError"

\* C10: when t_n_heads is a multiple of s_n_heads, in every distilled attention
\* pair each student head 0..s_n_heads-1 gets exactly one mseLoss term, against
\* the mean of its own contiguous group of t_n_heads / s_n_heads teacher heads;
\* no student head is left out and no head index outside 0..s_n_heads-1 is read.
C10_EveryStudentHeadMatched ==
    (Returned /\ largs.self.distill
        /\ largs.self.t_n_heads % largs.self.s_n_heads = 0) =>
        LET s     == largs.self.s_n_heads
            per   == largs.self.t_n_heads \div s
            n_att == Min(lres.n_distilled, Len(largs.out.att))
            terms == lres.atten_terms
        IN  /\ lres.raised # "IndexError"
            /\ \A k \in 1..Len(terms) : terms[k].s_head \in 0..(s - 1)
            /\ \A l \in 1..n_att : \A h \in 0..(s - 1) :
                 /\ Cardinality({k \in 1..Len(terms) :
                        terms[k].layer = l /\ terms[k].s_head = h}) = 1
                 /\ \A k \in 1..Len(terms) :
                        (terms[k].layer = l /\ terms[k].s_head = h) =>
                            terms[k].t_heads = (h * per)..((h + 1) * per - 1)

\* C11: in train with distillation on and t_n_heads not a multiple of
\* s_n_heads, the first get_loss call fails at torch.split of the first
\* distilled attention pair: no attention term has been accumulated, nothing is
\* returned or logged, backward and optimizer.step never run, and train is left
\* by that error.
HeadsMismatch ==
    /\ pc # "idle"
    /\ run.self.distill
    /\ run.self.t_n_heads % run.self.s_n_heads # 0

C11_SplitFailsFirst ==
    HeadsMismatch =>
        /\ opt_steps = 0
        /\ global_step = 0
        /\ writer = <<>>
        /\ grad \in {"none", "zero"}
        /\ pc \notin {"backward", "opt_step", "account", "save_check",
                      "budget_check"}
        /\ lcall # NoCall =>
              /\ pc = "failed"
              /\ terr = "RuntimeError"
              /\ lcall.res.raised = "RuntimeError"
              /\ lcall.cur_epoch = 1
              /\ lcall.res.atten_terms = <<>>
              /\ lcall.res.atten_layers_loss = 0
              /\ lcall.res.scalars = <<>>
              /\ saves = <<>>

C11_Witness ==
    /\ HeadsMismatch
    /\ pc = "failed"
    /\ terr = "RuntimeError"
    /\ run.self.s_n_heads = 2
    /\ run.self.t_n_heads = 3
    /\ run.self.imitate_tinybert
    /\ grad = "zero"

\* C12: in every get_loss call of train that returns with distillation on, the
\* hidden-layer loss sums min(N, hidden pairs) pairs and the attention loss
\* min(N, attention pairs) pairs, where N is the 1-based epoch number e + 1
\* under gradual distillation and num_hidden_layers + 1 otherwise; N never
\* decreases from one call to the next.
ScheduledN ==
    IF run.self.gradually_distill THEN lcall.cur_epoch
    ELSE run.self.num_hidden_layers + 1

AttenLayers(terms) == {terms[k].layer : k \in 1..Len(terms)}

InBatch == pc \in {"backward", "opt_step", "account", "save_check", "budget_check"}

C12_Counts ==
    (pc # "idle" /\ run.self.distill /\ lcall # NoCall) =>
        /\ lcall.res.n_distilled = ScheduledN
        /\ InBatch => lcall.cur_epoch = e + 1
        /\ lcall.res.raised = "none" =>
              /\ lcall.res.hidden_terms =
                    Min(ScheduledN, run.self.num_hidden_layers + 1)
              /\ lcall.res.hidden_layers_loss = lcall.res.hidden_terms
              /\ AttenLayers(lcall.res.atten_terms) =
                    1..Min(ScheduledN, run.self.num_hidden_layers)
              /\ lcall.res.atten_layers_loss =
                    Min(ScheduledN, run.self.num_hidden_layers)
                        * (run.self.t_n_heads \div run.self.s_n_heads)

C12_NeverDecreases == lcall'.res.n_distilled >= lcall.res.n_distilled

C12_LayerSchedule == []C12_Counts /\ [][C12_NeverDecreases]_vars

C12_Witness ==
    /\ pc = "backward"
    /\ run.self.distill
    /\ run.self.gradually_distill
    /\ run.self.num_hidden_layers = 1
    /\ lcall.res.raised = "none"
    /\ lcall.cur_epoch = 3
    /\ lcall.res.hidden_terms = 2
    /\ Len(writer) >= 3

\* C13 (as claimed): AddSpecialTokensWithTruncation leaves the token sequences
\* of the instance passed in unchanged and keeps no state, so a second
\* application to the same instance returns the same result.
C13_InputUntouched ==
    ResultReturned =>
        /\ instance = given
        /\ prev # NoPrev => result = prev.result

\* C13 (amended): the stage truncates the token lists of the instance passed in
\* in place, to the prefixes that fit the budget, and leaves them as they were
\* exactly when the pair already fit; the label and the stage's own fields
\* never change, and a second application to the same instance returns the
\* same result and changes nothing.
C13_AfterCall ==
    ResultReturned =>
        /\ instance.label = given.label
        /\ IsPrefix(instance.tokens_a, given.tokens_a)
        /\ IsPrefix(instance.tokens_b, given.tokens_b)
        /\ instance = given <=>
              Len(given.tokens_a) + Len(given.tokens_b) <= _max_len
        /\ prev # NoPrev =>
              /\ result = prev.result
              /\ instance = given

C13_StageKeepsNoState == pcfg' = pcfg

C13_TruncatesInPlace == []C13_AfterCall /\ [][C13_StageKeepsNoState]_vars

C13_Witness ==
    /\ ResultReturned
    /\ prev # NoPrev
    /\ prev.arg # given
    /\ result = prev.result
    /\ result.tokens_b # <<>>
    /\ Len(prev.arg.tokens_a) > Len(instance.tokens_a)
    /\ Len(prev.arg.tokens_b) > Len(instance.tokens_b)

\* C14: each batch goes zero_grad, get_loss, backward, optimizer.step in that
\* order, and only then is global_step incremented, by exactly 1; global_step
\* never decreases; loss_sum, result_values_sum and local_step are back at
\* their initial values at the start of every epoch; a batch begins only when
\* every earlier optimizer step has completed.
C14_Positions ==
    /\ pc \in {"get_loss", "backward"} => grad = "zero"
    /\ pc = "opt_step" => grad = "computed"
    /\ pc = "account" => grad = "applied" /\ opt_steps = global_step + 1
    /\ pc \in {"save_check", "budget_check"} =>
          grad = "applied" /\ opt_steps = global_step
    /\ pc = "zero_grad" => grad \in {"none", "applied"} /\ opt_steps = global_step
    /\ (pc = "iter" /\ it = 0) =>
          loss_sum = 0 /\ local_step = 0 /\ result_values_sum = Unbound
    /\ pc \in {"iter", "zero_grad", "get_loss", "backward", "opt_step"} =>
          local_step = it - (IF pc = "iter" THEN 0 ELSE 1)

C14_Steps ==
    /\ pc = "zero_grad" => pc' = "get_loss" /\ grad' = "zero"
    /\ pc = "get_loss" => pc' \in {"backward", "failed"}
    /\ pc = "backward" => pc' = "opt_step" /\ grad' = "computed"
    /\ pc = "opt_step" => pc' = "account" /\ opt_steps' = opt_steps + 1
    /\ opt_steps' # opt_steps => pc = "opt_step"
    /\ global_step' # global_step =>
          /\ pc = "account"
          /\ global_step' = global_step + 1
          /\ local_step' = local_step + 1
          /\ loss_sum' = loss_sum + loss
    /\ global_step' >= global_step
    /\ (pc = "epoch" /\ pc' = "iter") =>
          /\ loss_sum' = 0
          /\ local_step' = 0
          /\ result_values_sum' = Unbound
          /\ global_step' = global_step

C14_StepOrder == []C14_Positions /\ [][C14_Steps]_vars

C14_Witness ==
    /\ pc = "zero_grad"
    /\ e >= 1
    /\ global_step >= 2
    /\ local_step = 0
    /\ loss_sum = 0
    /\ result_values_sum = Unbound
    /\ grad = "applied"

====
